---- MODULE Spec2Model ----
(***************************************************************************)
(* A model of scripts/fiew_bot.py: the FiewBot class and main().            *)
(*                                                                         *)
(* Four specifications share the variables below.                          *)
(*   Spec        main() as it is written.  FiewBot.__init__ calls          *)
(*               setup_logging before it assigns self.test_mode, and       *)
(*               setup_logging reads self.test_mode (line 87): the         *)
(*               construction raises and main() returns 1.                 *)
(*   SpecBot     main() on a FiewBot that has a test_mode attribute when   *)
(*               setup_logging reads it, so that the construction goes on  *)
(*               to authenticate() and main() to run().  It is the         *)
(*               specification of the methods main() as written never      *)
(*               reaches.  The scheduler starts the script again on the    *)
(*               same file system.                                         *)
(*   SpecConvert convert_markdown_to_facebook_post on long inputs.         *)
(*   SpecDaily   generate_daily_message over the calendar.                 *)
(*                                                                         *)
(* Text is a sequence of pieces.  Markdown and file names are modelled     *)
(* character by character (a piece is one character); the canned messages  *)
(* of generate_daily_message are one piece each.  The configuration file,  *)
(* when present, is taken to hold the 'paths' and 'content' sections that  *)
(* the methods index directly (lines 71, 113, 180).                        *)
(***************************************************************************)
EXTENDS Integers, Sequences, FiniteSets, TLC

VARIABLES
    pc,               \* position of the script
    environ,          \* os.environ: FB_PAGE_ID, FB_ACCESS_TOKEN, FB_API_VERSION, TEST_MODE
    fileConfig,       \* what config/config.yaml holds (or that it is missing)
    attrs,            \* the attributes assigned on the FiewBot instance so far
    config,           \* self.config
    test_mode,        \* self.test_mode (meaningful once "test_mode" is in attrs)
    graph,            \* self.graph: "None" or "GraphAPI"
    posts_exists,     \* whether posts_dir exists
    archive_exists,   \* whether posts_dir/archive exists
    files,            \* the files in the top level of posts_dir
    archive,          \* the files renamed into posts_dir/archive
    requests,         \* the Graph API requests made in this run, in order
    today,            \* date.today()
    markdown_content, \* run(): what find_new_post returned
    selected,         \* the files find_new_post read in this run (none or one)
    formatted,        \* convert: text after the hashtags are added
    limited,          \* convert: text after the length limit, before the strip
    post_message,     \* run(): the message handed to post_to_facebook
    success,          \* run(): what post_to_facebook returned ("unset" before)
    exit_code,        \* what main() returned (-1 while it runs)
    exception,        \* the exception that left FiewBot() or run(), "" if none
    log,              \* the outcomes the run has logged, in order
    steps,            \* the steps the run has executed, in order
    run,              \* number of the current invocation of the script
    startFiles,       \* the top-level files when the current run started
    consumed          \* the files find_new_post has returned the content of, with the mode

vars == <<pc, environ, fileConfig, attrs, config, test_mode, graph, posts_exists,
          archive_exists, files, archive, requests, today, markdown_content,
          selected, formatted, limited, post_message, success, exit_code,
          exception, log, steps, run, startFiles, consumed>>

(***************************************************************************)
(* Characters and strings                                                  *)
(***************************************************************************)
NL == "\n"
SP == " "
\* str.strip() with no argument strips white space
Whitespace == {SP, NL, "\t", "\r"}
\* stand-ins for the three non-ASCII characters the formatter writes
SpeechBalloon == "@"
Bullet == "o"
BoxLine == "_"

\* the code points of the characters file names are built from
Ord(c) ==
    CASE c = "." -> 46 [] c = "A" -> 65 [] c = "B" -> 66 [] c = "a" -> 97
      [] c = "b" -> 98 [] c = "d" -> 100 [] c = "m" -> 109 [] c = "t" -> 116
      [] c = "x" -> 120

\* str.lower() on one character
LowerChar(c) == CASE c = "A" -> "a" [] c = "B" -> "b" [] OTHER -> c

Lower(s) == [i \in 1..Len(s) |-> LowerChar(s[i])]

\* s < t for Python strings: lexicographic by code point
RECURSIVE StrLess(_, _)
StrLess(s, t) ==
    IF t = <<>> THEN FALSE
    ELSE IF s = <<>> THEN TRUE
    ELSE IF Ord(s[1]) # Ord(t[1]) THEN Ord(s[1]) < Ord(t[1])
    ELSE StrLess(Tail(s), Tail(t))

StartsWith(s, p) == Len(s) >= Len(p) /\ SubSeq(s, 1, Len(p)) = p

EndsWith(s, p) == Len(s) >= Len(p) /\ SubSeq(s, Len(s) - Len(p) + 1, Len(s)) = p

\* s[n:] with n >= 0
From(s, n) == SubSeq(s, n + 1, Len(s))

\* s[:n] with n >= 0
Prefix(s, n) == SubSeq(s, 1, IF n < Len(s) THEN n ELSE Len(s))

Strip(s) ==
    IF \A i \in 1..Len(s) : s[i] \in Whitespace THEN <<>>
    ELSE LET a == CHOOSE i \in 1..Len(s) :
                      s[i] \notin Whitespace /\ \A j \in 1..(i - 1) : s[j] \in Whitespace
             b == CHOOSE i \in 1..Len(s) :
                      s[i] \notin Whitespace /\ \A j \in (i + 1)..Len(s) : s[j] \in Whitespace
         IN  SubSeq(s, a, b)

\* s.split('\n')
RECURSIVE Split(_)
Split(s) ==
    IF \A i \in 1..Len(s) : s[i] # NL THEN <<s>>
    ELSE LET j == CHOOSE i \in 1..Len(s) : s[i] = NL /\ \A k \in 1..(i - 1) : s[k] # NL
         IN  <<SubSeq(s, 1, j - 1)>> \o Split(From(s, j))

RECURSIVE Join(_)
Join(parts) == IF parts = <<>> THEN <<>> ELSE Head(parts) \o Join(Tail(parts))

(***************************************************************************)
(* convert_markdown_to_facebook_post                                       *)
(***************************************************************************)
MaxPostLen == 5000
CutLen == 4997
RuleLen == 30
Ellipsis == <<".", ".", ".">>
Hashtags == <<NL, NL>> \o <<"#", "F", "i", "e", "w", SP>>
            \o <<"#", "D", "a", "i", "l", "y", "P", "o", "s", "t", SP>>
            \o <<"#", "C", "u", "r", "i", "o", "s", "i", "t", "y">>

\* one pass of the if/elif chain of the loop body
ConvertLine(line) ==
    IF StartsWith(line, <<"#", SP>>) THEN Strip(From(line, 2)) \o <<NL>>
    ELSE IF StartsWith(line, <<"#", "#", SP>>) THEN Strip(From(line, 3)) \o <<NL>>
    ELSE IF StartsWith(line, <<"#", "#", "#", SP>>) THEN Strip(From(line, 4)) \o <<":", SP>>
    ELSE IF StartsWith(line, <<">">>) THEN <<SpeechBalloon, SP>> \o Strip(From(line, 1)) \o <<NL>>
    ELSE IF StartsWith(line, <<"*", SP>>) \/ StartsWith(line, <<"-", SP>>)
         THEN <<Bullet, SP>> \o Strip(From(line, 2)) \o <<NL>>
    ELSE IF StartsWith(line, <<"1", ".", SP>>) THEN line \o <<NL>>
    ELSE IF Strip(line) = <<"-", "-", "-">> \/ Strip(line) = <<"*", "*", "*">>
         THEN [i \in 1..RuleLen |-> BoxLine] \o <<NL>>
    ELSE IF Strip(line) # <<>> THEN Strip(line) \o <<NL>>
    ELSE <<NL>>

\* lines 193-217: strip, split into lines, convert each, join
FormatLines(content) ==
    LET lines == Split(Strip(content))
    IN  Join([i \in 1..Len(lines) |-> ConvertLine(lines[i])])

\* line 220
AddHashtags(text) == text \o Hashtags

\* a length limit that cuts at the limit itself before appending the dots
LimitLengthCutAtLimit(text) ==
    IF Len(text) > MaxPostLen THEN Prefix(text, MaxPostLen) \o Ellipsis ELSE text

\* lines 223-224
LimitLength(text) ==
    IF Len(text) > MaxPostLen THEN Prefix(text, CutLen) \o Ellipsis ELSE text

convert_markdown_to_facebook_post(content) ==
    Strip(LimitLength(AddHashtags(FormatLines(content))))

(***************************************************************************)
(* Configuration: load_config                                              *)
(***************************************************************************)
\* os.environ has no such variable
Unset == "<unset>"
\* Python's None, and a dict key that is absent
None == "<None>"
\* Python truthiness of an optional string
Truthy(v) == v # None /\ v # ""

FacebookKeys == {"page_id", "access_token", "api_version"}
EnvName(key) ==
    CASE key = "page_id" -> "FB_PAGE_ID"
      [] key = "access_token" -> "FB_ACCESS_TOKEN"
      [] key = "api_version" -> "FB_API_VERSION"

DefaultApiVersion == "v18.0"
NoFacebook == [k \in FacebookKeys |-> None]

\* the configuration built when the file is missing (lines 35-48)
DefaultPaths == "posts_dir: posts/, logs_dir: logs/"
DefaultContent ==
    [has_fallback |-> TRUE,
     fallback_messages |-> <<"Another day, another opportunity to learn something new!",
                             "Keep exploring, keep growing. What will you discover today?",
                             "Thought for the day: The only limit is your imagination.">>,
     has_default |-> TRUE,
     default_message |-> "Good morning from Fiew! Stay curious, stay inspired. #FiewDaily"]
DefaultConfig == [facebook |-> NoFacebook, paths |-> DefaultPaths, content |-> DefaultContent]

\* lines 31-48: the YAML file, or the built-in configuration when it is missing
FileOrDefault(fc) ==
    IF fc.found THEN [facebook |-> fc.facebook, paths |-> fc.paths, content |-> fc.content]
    ELSE DefaultConfig

\* os.getenv(name)
Getenv(env, name) == IF env[name] = Unset THEN None ELSE env[name]
\* os.getenv(name, default)
GetenvDefault(env, name, default) == IF env[name] = Unset THEN default ELSE env[name]

\* lines 51-57
EnvConfig(env) ==
    [page_id |-> Getenv(env, "FB_PAGE_ID"),
     access_token |-> Getenv(env, "FB_ACCESS_TOKEN"),
     api_version |-> GetenvDefault(env, "FB_API_VERSION", DefaultApiVersion)]

\* lines 60-65: a truthy environment value replaces the file's
MergeFacebook(base, env_config) ==
    [k \in FacebookKeys |-> IF Truthy(env_config[k]) THEN env_config[k] ELSE base[k]]

load_config(fc, env) ==
    LET base == FileOrDefault(fc)
    IN  [base EXCEPT !.facebook = MergeFacebook(base.facebook, EnvConfig(env))]

\* line 26: os.getenv('TEST_MODE', 'false').lower() == 'true'
LowerWord(w) == CASE w = "True" -> "true" [] w = "TRUE" -> "true" [] OTHER -> w
TestModeOf(env) == LowerWord(GetenvDefault(env, "TEST_MODE", "false")) = "true"

(***************************************************************************)
(* generate_daily_message                                                  *)
(***************************************************************************)
\* datetime.date: _is_leap, _days_before_year, _days_before_month, toordinal, weekday
IsLeap(y) == y % 4 = 0 /\ (y % 100 # 0 \/ y % 400 = 0)
DaysInMonth(y, m) ==
    IF m = 2 THEN (IF IsLeap(y) THEN 29 ELSE 28)
    ELSE IF m \in {4, 6, 9, 11} THEN 30 ELSE 31
DaysBeforeYear(y) == (y - 1) * 365 + (y - 1) \div 4 - (y - 1) \div 100 + (y - 1) \div 400
RECURSIVE DaysBeforeMonth(_, _)
DaysBeforeMonth(y, m) ==
    IF m = 1 THEN 0 ELSE DaysBeforeMonth(y, m - 1) + DaysInMonth(y, m - 1)
ToOrdinal(d) == DaysBeforeYear(d.year) + DaysBeforeMonth(d.year, d.month) + d.day
\* Monday is 0
Weekday(d) == (ToOrdinal(d) + 6) % 7

\* lines 153-160, keyed by <<month, day>>
SpecialDates == {<<1, 1>>, <<2, 14>>, <<3, 8>>, <<4, 22>>, <<12, 25>>, <<10, 31>>}
SpecialMessage(md) ==
    CASE md = <<1, 1>> -> "Happy New Year! May this year be filled with discovery and growth! #NewYear"
      [] md = <<2, 14>> -> "Happy Valentine's Day! Remember to love what you do and do what you love. #ValentinesDay"
      [] md = <<3, 8>> -> "Happy International Women's Day! Celebrating women in tech and beyond. #WomensDay"
      [] md = <<4, 22>> -> "Happy Earth Day! Let's protect our beautiful planet. #EarthDay"
      [] md = <<12, 25>> -> "Merry Christmas! Wishing you peace, joy, and inspiration! #Christmas"
      [] md = <<10, 31>> -> "Happy Halloween! May your day be spooktacular! #Halloween"

\* lines 167-175
day_themes ==
    <<"Mindfulness Monday", "Tech Tuesday", "Wisdom Wednesday", "Throwback Thursday",
      "Future Friday", "Science Saturday", "Serenity Sunday">>

\* the default of the .get at lines 185-186
BuiltinDefaultMessage == "Good morning from Fiew! Stay curious, stay inspired."

\* config['content'].get('fallback_messages', [])
FallbackMessages(content) == IF content.has_fallback THEN content.fallback_messages ELSE <<>>
\* config['content'].get('default_message', ...)
DefaultMessage(content) ==
    IF content.has_default THEN content.default_message ELSE BuiltinDefaultMessage

\* the indexes random.choice may draw; one dummy index when nothing is drawn
ChoiceIndexes(d, content) ==
    IF <<d.month, d.day>> \in SpecialDates \/ FallbackMessages(content) = <<>>
    THEN {1} ELSE 1..Len(FallbackMessages(content))

\* line 177: day_themes[today.weekday()]
Theme(d) == day_themes[Weekday(d) + 1]

\* a generator that looks at the weekday theme before the calendar
generate_daily_message_theme_first(d, content, i) ==
    IF FallbackMessages(content) # <<>>
    THEN <<Theme(d), ": ", FallbackMessages(content)[i]>>
    ELSE IF <<d.month, d.day>> \in SpecialDates THEN <<SpecialMessage(<<d.month, d.day>>)>>
    ELSE <<Theme(d), ": ", DefaultMessage(content)>>

\* lines 148-187; i is the index random.choice draws
generate_daily_message(d, content, i) ==
    IF <<d.month, d.day>> \in SpecialDates THEN <<SpecialMessage(<<d.month, d.day>>)>>
    ELSE IF FallbackMessages(content) # <<>>
         THEN <<Theme(d), ": ", FallbackMessages(content)[i]>>
         ELSE <<Theme(d), ": ", DefaultMessage(content)>>

(***************************************************************************)
(* The posts directory: find_new_post                                      *)
(***************************************************************************)
MaxFiles == 2
MaxRuns == 2

DotMd == <<".", "m", "d">>
FileNames == {<<"a">> \o DotMd, <<"A">> \o DotMd, <<"B">> \o DotMd,
              <<"x", ".", "t", "x", "t">>}
Mtimes == 1..MaxFiles
FileContents == {<<>>, <<SP>>, <<"#", SP, "a">>}

\* directories of at most MaxFiles files, with distinct names and modification times
Directories ==
    UNION {
        { {[name |-> n, mtime |-> mt[n], content |-> ct[n]] : n \in ns} :
            mt \in {m \in [ns -> Mtimes] : \A x, y \in ns : x # y => m[x] # m[y]},
            ct \in [ns -> FileContents] } :
        ns \in {q \in SUBSET FileNames : Cardinality(q) <= MaxFiles} }

\* posts_dir.glob("*.md")
Glob(fs) == {f \in fs : EndsWith(f.name, DotMd)}

\* a sort key that keeps the case of the name
SortKeyCaseSensitive(f) == f.name

\* line 127: key=lambda x: x.name.lower()
SortKey(f) == Lower(f.name)

\* line 130: what markdown_files[0] can be after the stable sort of the glob's
\* result, whose order the file system decides: any file no other sorts before
FirstAfterSort(md) == {f \in md : \A g \in md : ~StrLess(SortKey(g), SortKey(f))}

\* a rename that also happens in test mode
TopLevelAfterRenameAlways(fs, f, tm) == fs \ {f}

\* a read that never renames the file
TopLevelAfterNoRename(fs, f, tm) == fs

\* lines 140-144: the file leaves the top level unless in test mode
TopLevelAfter(fs, f, tm) == IF tm THEN fs ELSE fs \ {f}

\* what find_new_post returns: None, or the content read
NoContent == [none |-> TRUE, text |-> <<>>]
Content(text) == [none |-> FALSE, text |-> text]
\* line 278: "if markdown_content:"
ContentTruthy(mc) == ~mc.none /\ mc.text # <<>>

(***************************************************************************)
(* The script, step by step                                                *)
(***************************************************************************)
Step(name) == steps' = Append(steps, name)

\* line 23
LoadConfig ==
    /\ pc = "load_config"
    /\ config' = load_config(fileConfig, environ)
    /\ attrs' = attrs \cup {"config"}
    /\ pc' = "setup_logging"
    /\ Step("load_config")
    /\ UNCHANGED <<environ, fileConfig, test_mode, graph, posts_exists, archive_exists,
                   files, archive, requests, today, markdown_content, selected,
                   formatted, limited, post_message, success, exit_code, exception,
                   log, run, startFiles, consumed>>

\* line 24, lines 69-87: the last line reads self.test_mode
SetupLogging ==
    /\ pc = "setup_logging"
    /\ attrs' = attrs \cup {"logger"}
    /\ IF "test_mode" \in attrs
       THEN pc' = "init_fields" /\ UNCHANGED exception
       ELSE pc' = "except" /\ exception' = "AttributeError"
    /\ Step("setup_logging")
    /\ UNCHANGED <<environ, fileConfig, config, test_mode, graph, posts_exists,
                   archive_exists, files, archive, requests, today, markdown_content,
                   selected, formatted, limited, post_message, success, exit_code,
                   log, run, startFiles, consumed>>

\* lines 25-26
InitFields ==
    /\ pc = "init_fields"
    /\ graph' = "None"
    /\ test_mode' = TestModeOf(environ)
    /\ attrs' = attrs \cup {"graph", "test_mode"}
    /\ pc' = "authenticate"
    /\ UNCHANGED <<environ, fileConfig, config, posts_exists, archive_exists, files,
                   archive, requests, today, markdown_content, selected, formatted,
                   limited, post_message, success, exit_code, exception, log, steps,
                   run, startFiles, consumed>>

\* lines 108-109: "if not self.test_mode: raise"
Reraises(tm) == ~tm

\* line 27, lines 89-109; ok is whether get_object('me') succeeds
Authenticate ==
    /\ pc = "authenticate"
    /\ Step("authenticate")
    /\ IF ~Truthy(config.facebook["access_token"])
       THEN /\ log' = Append(log, "Authentication failed")
            /\ IF Reraises(test_mode)
               THEN pc' = "except" /\ exception' = "ValueError"
               ELSE pc' = "run" /\ UNCHANGED exception
            /\ UNCHANGED <<graph, requests>>
       ELSE /\ graph' = "GraphAPI"
            /\ IF test_mode
               THEN /\ log' = Append(log, "Skipping actual authentication")
                    /\ pc' = "run"
                    /\ UNCHANGED <<requests, exception>>
               ELSE \E ok \in BOOLEAN :
                    /\ requests' = Append(requests, [op |-> "get_object", message |-> <<>>])
                    /\ IF ok
                       THEN /\ log' = Append(log, "Successfully authenticated")
                            /\ pc' = "run"
                            /\ UNCHANGED exception
                       ELSE /\ log' = Append(log, "Authentication failed")
                            /\ IF Reraises(test_mode)
                               THEN pc' = "except" /\ exception' = "GraphAPIError"
                               ELSE pc' = "run" /\ UNCHANGED exception
    /\ UNCHANGED <<environ, fileConfig, attrs, config, test_mode, posts_exists,
                   archive_exists, files, archive, today, markdown_content, selected,
                   formatted, limited, post_message, success, exit_code, run,
                   startFiles, consumed>>

\* line 276, lines 111-146
FindNewPost ==
    /\ pc = "run"
    /\ Step("find_new_post")
    /\ pc' = "format"
    /\ IF ~posts_exists
       THEN /\ posts_exists' = TRUE
            /\ markdown_content' = NoContent
            /\ UNCHANGED <<archive_exists, files, archive, selected, consumed, log>>
       ELSE IF Glob(files) = {}
       THEN /\ markdown_content' = NoContent
            /\ UNCHANGED <<posts_exists, archive_exists, files, archive, selected,
                           consumed, log>>
       ELSE \E post_file \in FirstAfterSort(Glob(files)) :
            /\ markdown_content' = Content(post_file.content)
            /\ selected' = {post_file}
            /\ archive_exists' = TRUE
            /\ files' = TopLevelAfter(files, post_file, test_mode)
            /\ archive' = archive \cup (files \ files')
            /\ log' = Append(log, IF files' # files THEN "Archived post" ELSE "Would archive")
            /\ consumed' = consumed \cup
                   {[file |-> post_file, test_mode |-> test_mode, run |-> run]}
            /\ UNCHANGED posts_exists
    /\ UNCHANGED <<environ, fileConfig, attrs, config, test_mode, graph, requests, today,
                   formatted, limited, post_message, success, exit_code, exception,
                   run, startFiles>>

\* lines 278-282
ConvertMarkdown ==
    /\ pc = "format"
    /\ ContentTruthy(markdown_content)
    /\ formatted' = AddHashtags(FormatLines(markdown_content.text))
    /\ limited' = LimitLength(formatted')
    /\ post_message' = Strip(limited')
    /\ pc' = "post"
    /\ Step("convert")
    /\ UNCHANGED <<environ, fileConfig, attrs, config, test_mode, graph, posts_exists,
                   archive_exists, files, archive, requests, today, markdown_content,
                   selected, success, exit_code, exception, log, run, startFiles,
                   consumed>>

\* lines 283-287
GenerateDaily ==
    /\ pc = "format"
    /\ ~ContentTruthy(markdown_content)
    /\ \E i \in ChoiceIndexes(today, config.content) :
           post_message' = generate_daily_message(today, config.content, i)
    /\ pc' = "post"
    /\ Step("generate")
    /\ UNCHANGED <<environ, fileConfig, attrs, config, test_mode, graph, posts_exists,
                   archive_exists, files, archive, requests, today, markdown_content,
                   selected, formatted, limited, success, exit_code, exception, log,
                   run, startFiles, consumed>>

\* line 295, lines 232-268; ok is whether put_object succeeds.  A missing page
\* ID, or a call on a graph that is None, raises inside the try and gives False
PostToFacebook ==
    /\ pc = "post"
    /\ Step("post")
    /\ pc' = "log"
    /\ IF test_mode
       THEN success' = "True" /\ UNCHANGED requests
       ELSE IF ~Truthy(config.facebook["page_id"]) \/ graph = "None"
       THEN success' = "False" /\ UNCHANGED requests
       ELSE \E ok \in BOOLEAN :
            /\ requests' = Append(requests, [op |-> "put_object", message |-> post_message])
            /\ success' = IF ok THEN "True" ELSE "False"
    /\ UNCHANGED <<environ, fileConfig, attrs, config, test_mode, graph, posts_exists,
                   archive_exists, files, archive, today, markdown_content, selected,
                   formatted, limited, post_message, exit_code, exception, log, run,
                   startFiles, consumed>>

\* an exit code that is 0 whatever run() returned
ExitCodeAlwaysZero(ok) == 0

\* lines 313-316
ExitCode(ok) == IF ok = "True" THEN 0 ELSE 1

\* lines 297-305 and 311-316: log the outcome, return it, main() maps it to the exit code
LogAndReturn ==
    /\ pc = "log"
    /\ log' = Append(log, IF success = "True" THEN "Successfully posted" ELSE "Failed to post")
    /\ exit_code' = ExitCode(success)
    /\ pc' = "done"
    /\ Step("log")
    /\ UNCHANGED <<environ, fileConfig, attrs, config, test_mode, graph, posts_exists,
                   archive_exists, files, archive, requests, today, markdown_content,
                   selected, formatted, limited, post_message, success, exception,
                   run, startFiles, consumed>>

\* lines 318-320
MainExcept ==
    /\ pc = "except"
    /\ log' = Append(log, "Fiew Bot failed")
    /\ exit_code' = 1
    /\ pc' = "done"
    /\ UNCHANGED <<environ, fileConfig, attrs, config, test_mode, graph, posts_exists,
                   archive_exists, files, archive, requests, today, markdown_content,
                   selected, formatted, limited, post_message, success, exception,
                   steps, run, startFiles, consumed>>

\* the scheduler starts the script again: a new process on the same file system
NextRun ==
    /\ pc = "done"
    /\ run < MaxRuns
    /\ run' = run + 1
    /\ pc' = "load_config"
    /\ attrs' = {"test_mode"}
    /\ config' = DefaultConfig
    /\ test_mode' = FALSE
    /\ graph' = "None"
    /\ requests' = <<>>
    /\ markdown_content' = NoContent
    /\ selected' = {}
    /\ formatted' = <<>>
    /\ limited' = <<>>
    /\ post_message' = <<>>
    /\ success' = "unset"
    /\ exit_code' = -1
    /\ exception' = ""
    /\ log' = <<>>
    /\ steps' = <<>>
    /\ startFiles' = files
    /\ UNCHANGED <<environ, fileConfig, posts_exists, archive_exists, files, archive,
                   today, consumed>>

(***************************************************************************)
(* Initial states                                                          *)
(***************************************************************************)
FirstYear == 2024
LastYear == 2026
MaxFill == 4980

EnvValues(name) ==
    CASE name = "FB_PAGE_ID" -> {Unset, "", "env_page"}
      [] name = "FB_ACCESS_TOKEN" -> {Unset, "", "env_token"}
      [] name = "FB_API_VERSION" -> {Unset, "", "v19.0"}
      [] name = "TEST_MODE" -> {Unset, "True", "false"}
EnvNames == {"FB_PAGE_ID", "FB_ACCESS_TOKEN", "FB_API_VERSION", "TEST_MODE"}
Environs == {e \in [EnvNames -> {Unset, "", "env_page", "env_token", "v19.0", "True", "false"}] :
                \A n \in EnvNames : e[n] \in EnvValues(n)}
\* the environments of SpecBot: each variable unset or set to a value
BotEnvirons == {e \in Environs : e["FB_API_VERSION"] = Unset
                                 /\ \A n \in EnvNames : e[n] \notin {"", "false"}}

FileFacebookValue(key) ==
    CASE key = "page_id" -> "file_page"
      [] key = "access_token" -> "file_token"
      [] key = "api_version" -> "v17.0"
NoFallbackContent ==
    [has_fallback |-> TRUE, fallback_messages |-> <<>>,
     has_default |-> TRUE, default_message |-> "Hello from the configuration file"]
MissingFile == [found |-> FALSE, facebook |-> NoFacebook, paths |-> "", content |-> DefaultContent]
FileConfigs ==
    {MissingFile} \cup
    {[found |-> TRUE, facebook |-> fb, paths |-> "posts_dir: posts, logs_dir: logs",
      content |-> NoFallbackContent] :
        fb \in {f \in [FacebookKeys -> {None, "file_page", "file_token", "v17.0"}] :
                   \A k \in FacebookKeys : f[k] \in {None, FileFacebookValue(k)}}}
\* the configuration files of SpecBot: none, or one with no facebook section
BotFileConfigs == {fc \in FileConfigs : fc.facebook = NoFacebook}

DailyContents ==
    {DefaultContent, NoFallbackContent,
     [has_fallback |-> FALSE, fallback_messages |-> <<>>,
      has_default |-> FALSE, default_message |-> ""],
     [has_fallback |-> TRUE, fallback_messages |-> <<"Only one">>,
      has_default |-> FALSE, default_message |-> ""]}

Dates == {[year |-> y, month |-> m, day |-> d] :
              y \in FirstYear..LastYear, m \in 1..12, d \in 1..31} \ 
         {dt \in [year : FirstYear..LastYear, month : 1..12, day : 1..31] :
              dt.day > DaysInMonth(dt.year, dt.month)}
BotDate == [year |-> 2026, month |-> 11, day |-> 5]

Fill(n) == [i \in 1..n |-> "a"]
Heads == {<<>>, <<"#", SP>>, <<"#", "#", SP>>, <<"#", "#", "#", SP>>, <<">">>,
          <<"*", SP>>, <<"-", SP>>, <<"1", ".", SP>>, <<"#", SP, NL>>, <<SP, "\t">>}
Tails == {<<>>, <<NL, "-", "-", "-">>, <<NL, NL, "b">>, <<SP, SP>>}
FillLens == {0, 1} \cup {n \in 0..MaxFill : n + 20 >= MaxFill}
LongInputs == {h \o Fill(n) \o t : h \in Heads, n \in FillLens, t \in Tails}

\* a process that has just started
Fresh ==
    /\ test_mode = FALSE
    /\ graph = "None"
    /\ requests = <<>>
    /\ selected = {}
    /\ formatted = <<>>
    /\ limited = <<>>
    /\ post_message = <<>>
    /\ success = "unset"
    /\ exit_code = -1
    /\ exception = ""
    /\ log = <<>>
    /\ steps = <<>>
    /\ run = 1
    /\ archive = {}
    /\ archive_exists = FALSE
    /\ consumed = {}
    /\ startFiles = files

\* main() starts; FiewBot has no attribute before __init__ assigns it
Init ==
    /\ pc = "load_config"
    /\ attrs = {}
    /\ environ \in Environs
    /\ fileConfig \in FileConfigs
    /\ posts_exists = TRUE
    /\ files = {[name |-> <<"a">> \o DotMd, mtime |-> 1, content |-> <<"#", SP, "a">>]}
    /\ today = BotDate
    /\ config = DefaultConfig
    /\ markdown_content = NoContent
    /\ Fresh

Next == LoadConfig \/ SetupLogging \/ MainExcept

Spec == Init /\ [][Next]_vars

\* main() on a FiewBot whose test_mode can be read when setup_logging logs it
InitBot ==
    /\ pc = "load_config"
    /\ attrs = {"test_mode"}
    /\ environ \in BotEnvirons
    /\ fileConfig \in BotFileConfigs
    /\ posts_exists \in BOOLEAN
    /\ files \in (IF posts_exists THEN Directories ELSE {{}})
    /\ today = BotDate
    /\ config = DefaultConfig
    /\ markdown_content = NoContent
    /\ Fresh

NextBot ==
    \/ LoadConfig
    \/ SetupLogging
    \/ InitFields
    \/ Authenticate
    \/ FindNewPost
    \/ ConvertMarkdown
    \/ GenerateDaily
    \/ PostToFacebook
    \/ LogAndReturn
    \/ MainExcept
    \/ NextRun

SpecBot == InitBot /\ [][NextBot]_vars

\* run() at line 278 with the content of a long file
InitConvert ==
    /\ pc = "format"
    /\ attrs = {"config", "logger", "graph", "test_mode"}
    /\ environ = [n \in EnvNames |-> Unset]
    /\ fileConfig = MissingFile
    /\ posts_exists = TRUE
    /\ files = {}
    /\ today = BotDate
    /\ config = DefaultConfig
    /\ Fresh
    /\ \E text \in LongInputs : markdown_content = Content(text)

NextConvert == ConvertMarkdown

SpecConvert == InitConvert /\ [][NextConvert]_vars

\* run() at line 283 with nothing to post, on any day
InitDaily ==
    /\ pc = "format"
    /\ attrs = {"config", "logger", "graph", "test_mode"}
    /\ environ = [n \in EnvNames |-> Unset]
    /\ fileConfig = MissingFile
    /\ posts_exists = TRUE
    /\ files = {}
    /\ today \in Dates
    /\ markdown_content = NoContent
    /\ Fresh
    /\ \E c \in DailyContents : config = [DefaultConfig EXCEPT !.content = c]

NextDaily == GenerateDaily

SpecDaily == InitDaily /\ [][NextDaily]_vars

(***************************************************************************)
(* Properties                                                              *)
(***************************************************************************)
Range(seq) == {seq[i] : i \in 1..Len(seq)}
NumPuts == Cardinality({i \in 1..Len(requests) : requests[i].op = "put_object"})
NumGets == Cardinality({i \in 1..Len(requests) : requests[i].op = "get_object"})
InTestMode == TestModeOf(environ)
MdAtStart == Glob(startFiles)
\* the steps of the run as the specification names them
SpecSteps ==
    LET kept == SelectSeq(steps, LAMBDA st : st \notin {"setup_logging"})
    IN  [i \in 1..Len(kept) |->
            CASE kept[i] = "load_config" -> "load configuration"
              [] kept[i] = "authenticate" -> "authenticate"
              [] kept[i] = "find_new_post" -> "pick content"
              [] kept[i] \in {"convert", "generate"} -> "format"
              [] kept[i] = "post" -> "post"
              [] kept[i] = "log" -> "log the outcome"]

\* C1: a run of main() with an access token and a page ID configured, not in
\* test mode, in which every Graph API call succeeds, executes load
\* configuration, authenticate, pick content, format, post, log the outcome in
\* this order, makes exactly one put_object call and returns exit code 0.
C1_ConfiguredRunPostsAndReturnsZero ==
    (/\ pc = "done"
     /\ Truthy(config.facebook["access_token"])
     /\ Truthy(config.facebook["page_id"])
     /\ ~InTestMode
     /\ "Authentication failed" \notin Range(log)
     /\ success # "False")
    => /\ SpecSteps = <<"load configuration", "authenticate", "pick content", "format",
                        "post", "log the outcome">>
       /\ NumPuts = 1
       /\ exit_code = 0

\* what C2 counts as a failure: authentication failed or no access token is
\* configured, the post failed or no page ID is configured
RunFailed ==
    \/ "Authentication failed" \in Range(log)
    \/ ~Truthy(config.facebook["access_token"])
    \/ success = "False"
    \/ ~Truthy(config.facebook["page_id"])

C3_SelectsOldest ==
    \A f \in selected : \A g \in MdAtStart : f.mtime <= g.mtime

\* C3 as amended: when the posts directory holds '*.md' files, find_new_post
\* selects one of them whose lower-cased name no other's precedes, whatever
\* the modification times.
C3_SelectsFirstByLowercasedName ==
    /\ \A f \in selected :
          /\ f \in MdAtStart
          /\ \A g \in MdAtStart : ~StrLess(Lower(g.name), Lower(f.name))
    /\ ("find_new_post" \in Range(steps) /\ MdAtStart # {}) => selected # {}

\* find_new_post selected a file although an older '*.md' file was there
C3_Witness ==
    \E f \in selected : \E g \in MdAtStart : g.mtime < f.mtime

\* C4 as stated: once find_new_post has returned the content of a file, the
\* file is no longer in the top level of the posts directory and no later run
\* selects it again.
C4_ConsumedNeverReprocessed ==
    \A c \in consumed :
        /\ c.file \notin files
        /\ \A d \in consumed : d.file = c.file => d.run = c.run

\* C4 as amended: outside test mode, once find_new_post has returned the
\* content of a file, the file is no longer in the top level of the posts
\* directory and no later run selects it again.
C4_ConsumedOutsideTestModeNeverReprocessed ==
    \A c \in consumed :
        ~c.test_mode =>
            /\ c.file \notin files
            /\ \A d \in consumed : d.file = c.file => d.run = c.run

\* a second run has scanned the directory after the first run archived a file
C4_Witness ==
    /\ run = 2
    /\ "find_new_post" \in Range(steps)
    /\ \E c \in consumed : c.run = 1 /\ ~c.test_mode /\ c.file \in archive

\* C5: load_config merges per key: a non-empty environment variable gives the
\* value, an unset or empty one leaves exactly the file's value (or none);
\* the other sections are the file's.
C5_MergePerKey ==
    "config" \in attrs =>
        /\ \A k \in FacebookKeys :
              LET ev == environ[EnvName(k)]
              IN  config.facebook[k] =
                      (IF ev \notin {Unset, ""} THEN ev
                       ELSE IF fileConfig.found THEN fileConfig.facebook[k] ELSE None)
        /\ config.paths = (IF fileConfig.found THEN fileConfig.paths ELSE DefaultPaths)
        /\ config.content = (IF fileConfig.found THEN fileConfig.content ELSE DefaultContent)

\* C6: the text convert_markdown_to_facebook_post returns has at most 5000
\* characters, and when the formatted text with the hashtag footer exceeds
\* 5000 characters the text before the final strip is its first 4997
\* characters followed by '...'.
C6_LengthLimitedByTruncation ==
    pc = "post" =>
        /\ Len(post_message) <= 5000
        /\ Len(formatted) > 5000 =>
              limited = SubSeq(formatted, 1, 4997) \o <<".", ".", ".">>

\* a conversion whose formatted text was too long and came back 5000 long
C6_Witness ==
    /\ pc = "post"
    /\ Len(formatted) > 5000
    /\ Len(post_message) = 5000

\* the day of the week by Sakamoto's method, mapped to Monday = 0
MondayFirstWeekday(d) ==
    LET t == <<0, 3, 2, 5, 0, 3, 5, 1, 4, 6, 2, 4>>
        y == IF d.month < 3 THEN d.year - 1 ELSE d.year
    IN  (((y + y \div 4 - y \div 100 + y \div 400 + t[d.month] + d.day) % 7) + 6) % 7

C9_FailedPostLosesNothing ==
    (pc = "done" /\ ~InTestMode /\ success = "False") =>
        \A f \in MdAtStart : Strip(f.content) # <<>> => f \in files

\* C10: when the posts directory holds '*.md' files at the start of run(), the
\* message posted is the conversion of the selected file's content (also when
\* that content is empty); the daily message is posted only otherwise.
C10_FilePresentMeansFilePosted ==
    ("convert" \in Range(steps) \/ "generate" \in Range(steps)) =>
        IF MdAtStart # {}
        THEN \E f \in selected : post_message = convert_markdown_to_facebook_post(f.content)
        ELSE "generate" \in Range(steps)

====
